---- MODULE Spec2Model ----
(***************************************************************************)
(* Plugin pipeline engine of atomic-reactor.                               *)
(*                                                                         *)
(*   atomic_reactor/plugin.py: PluginsRunner.load_plugins() and run(), as  *)
(*     specialised by BuildPluginsRunner (placeholder substitution of the  *)
(*     plugin arguments), by the runners of the three build phases (the    *)
(*     result maps of the workflow) and by InputPluginsRunner ('auto');    *)
(*   atomic_reactor/plugins/post_remove_buildconfigs.py: the run() of the  *)
(*     remove_buildconfigs plugin against OSBS;                            *)
(*   atomic_reactor/api.py: the three entry points.                        *)
(*                                                                         *)
(* Python objects that can be aliased (the args of a configuration entry,  *)
(* their nested dicts and lists) live in an explicit heap: a sequence of   *)
(* nodes addressed by their index.  A node is                              *)
(*     [t |-> "str" | "list" | "dict", s, keys, kids]                      *)
(* where s is the text of a string, keys the keys of a dict (insertion     *)
(* order), and kids the heap ids of the elements / values.  The same       *)
(* record shape with sub-trees in place of ids is a value tree.  The       *)
(* result maps are kept by identity as well: result_maps holds the dicts,  *)
(* results_ref says which of them self.plugins_results is.                 *)
(***************************************************************************)
EXTENDS Integers, Sequences, FiniteSets, TLC

VARIABLES
    heap,             \* the Python objects reachable from the configuration and the plugins
    plugins_conf,     \* self.plugins_conf: the configured entries
    plugin_classes,   \* self.plugin_classes: key -> loaded plugin class
    runner,           \* the class of the runner: which subclass of PluginsRunner self is
    result_maps,      \* the result maps by identity: the workflow's and the runner's own
    results_ref,      \* self.plugins_results: which of the result maps it refers to
    auto,             \* InputPluginsRunner: self.autoinput, and autousable of run()
    workflow,         \* self.workflow.builder: the values placeholders resolve to
    pc,               \* position of the caller / of run()
    idx,              \* position of the for loop of run() in plugins_conf
    failed_msgs,      \* local of run()
    plugin_can_fail,  \* local of run()
    plugin_instance,  \* local of run(): <<>> or <<[key, kwargs]>>
    translated,       \* translated_conf of create_instance_from_plugin (heap id, 0 = none)
    exc,              \* the exception that left run(): [type, msg], type "" = none
    log,              \* history: what the current run() did, in order
    conf0,            \* history: the configuration as given to the constructor
    results0,         \* history: the result map as it was at construction
    os_environ,       \* os.environ: BUILD is <<>> when unset, else <<the parsed build>>
    build_is_failing, \* workflow.build_is_failing
    osbs,             \* the OSBS instance: what it lists, which deletions it refuses
    osbs_calls,       \* history: the calls made on the OSBS instance, in order
    files,            \* load_plugins: the plugin files it finds, in the order it loads them
    api               \* atomic_reactor.api: the call of an entry point and what it did

\* what the plugin finds around it; no step of the model changes it
environment == <<os_environ, build_is_failing, osbs>>

vars == <<heap, plugins_conf, plugin_classes, runner, result_maps, results_ref, auto,
          workflow, pc, idx, failed_msgs, plugin_can_fail, plugin_instance,
          translated, exc, log, conf0, results0, environment, osbs_calls, files, api>>

\* self.plugins_results: the result map the runner refers to
plugins_results == result_maps[results_ref]

-----------------------------------------------------------------------------
\* Bounds of the model

\* longest configuration list
MaxConf == 2
\* widest list / dict of the generated args trees
MaxWidth == 2

-----------------------------------------------------------------------------
\* Python values

Str(s) == [t |-> "str", s |-> s, keys |-> <<>>, kids |-> <<>>]
List(kids) == [t |-> "list", s |-> "", keys |-> <<>>, kids |-> kids]
Dict(keys, kids) == [t |-> "dict", s |-> "", keys |-> keys, kids |-> kids]

\* the object a heap id denotes, as a value tree
RECURSIVE value(_, _)
value(h, id) ==
    [t |-> h[id].t, s |-> h[id].s, keys |-> h[id].keys,
     kids |-> [i \in 1..Len(h[id].kids) |-> value(h, h[id].kids[i])]]

\* allocate the objects of a value tree
RECURSIVE store(_, _), store_all(_, _)
store_all(h, trees) ==
    IF Len(trees) = 0 THEN [heap |-> h, ids |-> <<>>]
    ELSE LET first == store(h, Head(trees))
             rest == store_all(first.heap, Tail(trees))
         IN  [heap |-> rest.heap, ids |-> <<first.id>> \o rest.ids]
store(h, tree) ==
    LET k == store_all(h, tree.kids)
    IN  [heap |-> Append(k.heap, [t |-> tree.t, s |-> tree.s,
                                  keys |-> tree.keys, kids |-> k.ids]),
         id |-> Len(k.heap) + 1]

\* the ids reachable from an object, itself included
RECURSIVE reachable(_, _)
reachable(h, id) ==
    {id} \cup UNION {reachable(h, h[id].kids[i]) : i \in 1..Len(h[id].kids)}

\* d[key] = v on a dict object
setitem(h, d, key, v) ==
    IF \E i \in 1..Len(h[d].keys) : h[d].keys[i] = key
    THEN LET i == CHOOSE j \in 1..Len(h[d].keys) : h[d].keys[j] = key
         IN  [h EXCEPT ![d].kids[i] = v]
    ELSE [h EXCEPT ![d].keys = Append(@, key), ![d].kids = Append(@, v)]

\* no copy at all: the "copy" is the object itself
deepcopy_alias(h, id) == [heap |-> h, id |-> id]

\* copy.deepcopy: fresh dicts and lists all the way down; strings are immutable
\* and are not copied
RECURSIVE deepcopy(_, _), deepcopy_all(_, _)
deepcopy_all(h, ids) ==
    IF Len(ids) = 0 THEN [heap |-> h, ids |-> <<>>]
    ELSE LET first == deepcopy(h, Head(ids))
             rest == deepcopy_all(first.heap, Tail(ids))
         IN  [heap |-> rest.heap, ids |-> <<first.id>> \o rest.ids]
deepcopy(h, id) ==
    IF h[id].t = "str" THEN [heap |-> h, id |-> id]
    ELSE LET k == deepcopy_all(h, h[id].kids)
         IN  [heap |-> Append(k.heap, [h[id] EXCEPT !.kids = k.ids]),
              id |-> Len(k.heap) + 1]

-----------------------------------------------------------------------------
\* Placeholder substitution (BuildPluginsRunner)

\* ImageName.to_str(): [registry/][namespace/]repo[:tag], "" for an absent part
to_str(image) ==
    LET tagged == IF image.tag /= "" THEN image.repo \o ":" \o image.tag ELSE image.repo
        spaced == IF image.namespace /= "" THEN image.namespace \o "/" \o tagged ELSE tagged
    IN  IF image.registry /= "" THEN image.registry \o "/" \o spaced ELSE spaced

\* the reserved values and what they stand for, given workflow.builder
translation_dict(builder) ==
    [BUILT_IMAGE_ID |-> builder.image_id,
     BUILD_DOCKERFILE_PATH |-> builder.source.dockerfile_path,
     BUILD_SOURCE_PATH |-> builder.source.path,
     BASE_IMAGE |-> to_str(builder.base_image)]

\* the reserved value a string contains, if any
containing(builder, s) ==
    {tok \in DOMAIN translation_dict(builder) :
        s \in {tok, tok \o "_extra", "my_" \o tok}}

\* a lookup that matches a reserved value anywhere in the string
get_substring(builder, s) ==
    IF containing(builder, s) /= {}
    THEN translation_dict(builder)[CHOOSE tok \in containing(builder, s) : TRUE]
    ELSE s

\* translation_dict.get(obj_to_translate, obj_to_translate) on a string
get(builder, s) ==
    IF s \in DOMAIN translation_dict(builder) THEN translation_dict(builder)[s] ELSE s

RECURSIVE _translate_special_values(_, _, _), translate_items(_, _, _, _, _),
          translate_elems(_, _, _)
\* for key, value in obj_to_translate.items(): translated_dict[key] = ...,
\* from the i-th item on
translate_items(h, builder, obj, translated_dict, i) ==
    IF i > Len(h[obj].kids) THEN [heap |-> h, id |-> translated_dict]
    ELSE LET r == _translate_special_values(h, builder, h[obj].kids[i])
         IN  translate_items(setitem(r.heap, translated_dict, h[obj].keys[i], r.id),
                             builder, obj, translated_dict, i + 1)
\* [self._translate_special_values(elem) for elem in obj_to_translate]
translate_elems(h, builder, ids) ==
    IF Len(ids) = 0 THEN [heap |-> h, ids |-> <<>>]
    ELSE LET first == _translate_special_values(h, builder, Head(ids))
             rest == translate_elems(first.heap, builder, Tail(ids))
         IN  [heap |-> rest.heap, ids |-> <<first.id>> \o rest.ids]
\* returns the heap after the call and the id of the translated object
_translate_special_values(h, builder, obj) ==
    IF h[obj].t = "dict"
    THEN LET c == deepcopy(h, obj)
         IN  translate_items(c.heap, builder, obj, c.id, 1)
    ELSE IF h[obj].t = "list"
    THEN LET r == translate_elems(h, builder, h[obj].kids)
         IN  [heap |-> Append(r.heap, [h[obj] EXCEPT !.kids = r.ids]),
              id |-> Len(r.heap) + 1]
    ELSE IF get(builder, h[obj].s) = h[obj].s
    THEN [heap |-> h, id |-> obj]
    ELSE [heap |-> Append(h, Str(get(builder, h[obj].s))), id |-> Len(h) + 1]

-----------------------------------------------------------------------------
\* Plugin classes

\* Plugin.can_fail, which every plugin class inherits unless it declares its own
Plugin_can_fail == TRUE

\* a plugin class that declares only its key: BuildPlugin.__init__ takes
\* (tasker, workflow, *args, **kwargs)
SomePlugin ==
    [key |-> "some_plugin", can_fail |-> <<>>,
     required |-> {}, optional |-> {}, var_keywords |-> TRUE]

\* RemoveBuildConfigsPlugin: can_fail = False,
\* __init__(self, tasker, workflow, url, verify_ssl=True, use_auth=True)
RemoveBuildConfigsPlugin ==
    [key |-> "remove_buildconfigs", can_fail |-> <<FALSE>>,
     required |-> {"url"}, optional |-> {"verify_ssl", "use_auth"},
     var_keywords |-> FALSE]

\* a build plugin that keeps the workflow it is constructed with and sets
\* attributes of workflow.builder in run()
ChangingPlugin ==
    [key |-> "changes_workflow", can_fail |-> <<>>,
     required |-> {}, optional |-> {}, var_keywords |-> TRUE]

\* what load_plugins() returns: the classes of the phase, indexed by key
load_plugins ==
    [k \in {SomePlugin.key, RemoveBuildConfigsPlugin.key} |->
        IF k = SomePlugin.key THEN SomePlugin ELSE RemoveBuildConfigsPlugin]

\* getattr(plugin_class, "can_fail", True)
class_can_fail(plugin_class) ==
    IF plugin_class.can_fail /= <<>> THEN plugin_class.can_fail[1] ELSE Plugin_can_fail

\* whether plugin_class(self.dt, self.workflow, **kwargs) binds its arguments:
\* every required parameter given, no unknown keyword, none given twice
binds(plugin_class, keywords) ==
    /\ plugin_class.required \subseteq keywords
    /\ keywords \cap {"self", "tasker", "workflow"} = {}
    /\ plugin_class.var_keywords
         \/ keywords \subseteq plugin_class.required \cup plugin_class.optional

\* what plugin_instance.run() may do: return a value or raise an Exception
Outcomes ==
    {[raised |-> FALSE, v |-> "response"], [raised |-> TRUE, v |-> "RuntimeError()"]}

-----------------------------------------------------------------------------
\* RemoveBuildConfigsPlugin.run() (plugins/post_remove_buildconfigs.py)

\* longest answer of list_buildconfigs
MaxList == 3

my_buildconfig_id == "my-buildconfig-id"
BuildConfigNames == {my_buildconfig_id, "buildconfig1", "buildconfig2"}

Absent == <<>>
NoLabels == [k \in {} |-> ""]

\* json.loads(os.environ["BUILD"]): metadata is Absent or <<m>>, and the labels
\* of m are Absent or <<a mapping label -> value>>
BuildJson(metadata) == [metadata |-> metadata]
Metadata(labels) == [labels |-> labels]

LabelSets ==
    {[k \in keys |-> IF k = "buildconfig" THEN my_buildconfig_id ELSE "prod-comp"] :
        keys \in SUBSET {"buildconfig", "product-component"}}

\* the values of os.environ.get("BUILD"): unset, or the JSON of a build
Builds ==
    {Absent, <<BuildJson(Absent)>>, <<BuildJson(<<Metadata(Absent)>>)>>}
    \cup {<<BuildJson(<<Metadata(<<labels>>)>>)>> : labels \in LabelSets}

\* build_json.get("metadata", {}).get("labels", {})
labels_of(build_json) ==
    IF build_json.metadata = Absent THEN NoLabels
    ELSE IF build_json.metadata[1].labels = Absent THEN NoLabels
    ELSE build_json.metadata[1].labels[1]

\* an OSBS instance: the names of the BuildConfigs list_buildconfigs returns
\* (or that it raises), and the names delete_buildconfig raises for
Osbs(buildconfigs, list_raises, refuses) ==
    [buildconfigs |-> buildconfigs, list_raises |-> list_raises, refuses |-> refuses]

Call(op, arg) == [op |-> op, arg |-> arg]

\* repr() of the exception delete_buildconfig(name) raises
delete_error(name) == "RuntimeError('" \o name \o "')"
list_error == "RuntimeError('list')"

\* what run() hands back: the calls it made on OSBS, and its return value or
\* the exception it raised
Ran_with(calls, raised, v) == [calls |-> calls, raised |-> raised, v |-> v]

\* the loop gives up at the first deletion that fails
RECURSIVE delete_until_failure(_, _, _)
delete_until_failure(buildconfigs, my_buildconfig, o) ==
    IF buildconfigs = <<>> THEN [calls |-> <<>>, last_exc |-> Absent]
    ELSE LET name == Head(buildconfigs)
         IN  IF name = my_buildconfig
             THEN delete_until_failure(Tail(buildconfigs), my_buildconfig, o)
             ELSE IF name \in o.refuses
             THEN [calls |-> <<Call("delete_buildconfig", name)>>,
                   last_exc |-> <<delete_error(name)>>]
             ELSE LET rest == delete_until_failure(Tail(buildconfigs), my_buildconfig, o)
                  IN  [calls |-> <<Call("delete_buildconfig", name)>> \o rest.calls,
                       last_exc |-> rest.last_exc]

\* the loop does not leave the build's own BuildConfig out
RECURSIVE delete_all(_, _, _)
delete_all(buildconfigs, my_buildconfig, o) ==
    IF buildconfigs = <<>> THEN [calls |-> <<>>, last_exc |-> Absent]
    ELSE LET name == Head(buildconfigs)
             rest == delete_all(Tail(buildconfigs), my_buildconfig, o)
         IN  [calls |-> <<Call("delete_buildconfig", name)>> \o rest.calls,
              last_exc |-> IF rest.last_exc /= Absent THEN rest.last_exc
                           ELSE IF name \in o.refuses THEN <<delete_error(name)>>
                           ELSE Absent]

\* lines 83-95: for buildconfig in buildconfigs: every BuildConfig but the
\* build's own is deleted, the last exception of a deletion is kept
RECURSIVE delete_others(_, _, _)
delete_others(buildconfigs, my_buildconfig, o) ==
    IF buildconfigs = <<>> THEN [calls |-> <<>>, last_exc |-> Absent]
    ELSE LET name == Head(buildconfigs)
             rest == delete_others(Tail(buildconfigs), my_buildconfig, o)
         IN  IF name = my_buildconfig THEN rest
             ELSE [calls |-> <<Call("delete_buildconfig", name)>> \o rest.calls,
                   last_exc |-> IF rest.last_exc /= Absent THEN rest.last_exc
                                ELSE IF name \in o.refuses THEN <<delete_error(name)>>
                                ELSE Absent]

\* a failing build lists and deletes like a succeeding one
remove_all_when_failing(my_buildconfig, o) ==
    LET d == delete_all(o.buildconfigs, my_buildconfig, o)
    IN  Ran_with(<<Call("list_buildconfigs", "")>> \o d.calls, d.last_exc /= Absent,
                 IF d.last_exc /= Absent THEN d.last_exc[1] ELSE "None")

\* lines 71-73: the build is failing, its own BuildConfig is deleted
remove_own(my_buildconfig, o) ==
    Ran_with(<<Call("delete_buildconfig", my_buildconfig)>>,
             my_buildconfig \in o.refuses,
             IF my_buildconfig \in o.refuses THEN delete_error(my_buildconfig) ELSE "None")

\* the plugin lists BuildConfigs before it looks at the labels
list_first(environ, failing, o) ==
    Ran_with(<<Call("list_buildconfigs", "")>>, FALSE, "None")

\* lines 48-98
RemoveBuildConfigsPlugin_run(environ, failing, o) ==
    IF environ = Absent THEN Ran_with(<<>>, FALSE, "None")
    ELSE LET labels == labels_of(environ[1])
         IN  IF "buildconfig" \notin DOMAIN labels THEN Ran_with(<<>>, FALSE, "None")
             ELSE IF failing THEN remove_own(labels["buildconfig"], o)
             ELSE IF "product-component" \notin DOMAIN labels
             THEN Ran_with(<<>>, FALSE, "None")
             ELSE LET label == "product-component=" \o labels["product-component"]
                      listed == <<Call("list_buildconfigs", label)>>
                      d == delete_others(o.buildconfigs, labels["buildconfig"], o)
                  IN  IF o.list_raises THEN Ran_with(listed, TRUE, list_error)
                      ELSE Ran_with(listed \o d.calls, d.last_exc /= Absent,
                                    IF d.last_exc /= Absent THEN d.last_exc[1] ELSE "None")

\* what the run() of the plugin of this key may do
run_of(key) ==
    IF key = RemoveBuildConfigsPlugin.key
    THEN {RemoveBuildConfigsPlugin_run(os_environ, build_is_failing, osbs)}
    ELSE {Ran_with(<<>>, o.raised, o.v) : o \in Outcomes}

\* os.environ, workflow.build_is_failing and OSBS when nothing is set up
NoEnvironment == <<Absent, FALSE, Osbs(<<>>, FALSE, {})>>

\* no BUILD in the environment; and a succeeding build whose product-component
\* has another BuildConfig that cannot be deleted
SomeEnvironments ==
    {NoEnvironment,
     <<<<BuildJson(<<Metadata(<<[k \in {"buildconfig", "product-component"} |->
                       IF k = "buildconfig" THEN my_buildconfig_id ELSE "prod-comp"]>>)>>)>>,
       FALSE, Osbs(<<my_buildconfig_id, "buildconfig1">>, FALSE, {"buildconfig1"})>>}

-----------------------------------------------------------------------------
\* Configuration entries.  An optional part is <<>> when absent, <<v>> when given.
\* kind "dict" is a mapping; "other" is an entry that cannot be indexed by
\* 'name' (a string, a list, None); "noget" is an object indexable by 'name'
\* that has no get().

\* args used by the entries of the model
NestedArgs ==
    Dict(<<"ref", "nested">>,
         <<Str("BASE_IMAGE"),
           Dict(<<"id", "raw", "BUILD_SOURCE_PATH">>,
                <<Str("BUILT_IMAGE_ID"), Str("BASE_IMAGE_extra"),
                  List(<<Str("BUILD_SOURCE_PATH"), Dict(<<"p">>, <<Str("BUILD_DOCKERFILE_PATH")>>)>>)>>)>>)
UrlArgs == Dict(<<"url", "verify_ssl">>, <<Str("BUILD_SOURCE_PATH"), Str("False")>>)
ListArgs == List(<<Str("BUILT_IMAGE_ID")>>)
StrArgs == Str("BASE_IMAGE")

Entry(kind, name, args, can_fail) ==
    [kind |-> kind, name |-> name, args |-> args, can_fail |-> can_fail]

Entries ==
    {Entry("other", <<>>, <<>>, <<>>),
     Entry("dict", <<>>, <<NestedArgs>>, <<FALSE>>),
     Entry("noget", <<SomePlugin.key>>, <<>>, <<>>),
     Entry("dict", <<"no_such_plugin">>, <<UrlArgs>>, <<FALSE>>)}
    \cup {Entry("dict", <<SomePlugin.key>>, a, c) :
            a \in {<<>>, <<NestedArgs>>}, c \in {<<>>, <<TRUE>>, <<FALSE>>}}
    \cup {Entry("dict", <<SomePlugin.key>>, <<a>>, <<>>) : a \in {ListArgs, StrArgs}}
    \cup {Entry("dict", <<RemoveBuildConfigsPlugin.key>>, <<UrlArgs>>, c) :
            c \in {<<>>, <<TRUE>>, <<FALSE>>}}
    \cup {Entry("dict", <<RemoveBuildConfigsPlugin.key>>, <<>>, <<>>)}

Confs == UNION {[1..n -> Entries] : n \in 0..MaxConf}

\* the configuration list as Python objects: the args of each entry become
\* objects of the heap, the entry refers to them by id
RECURSIVE load_conf(_, _)
load_conf(h, entries) ==
    IF Len(entries) = 0 THEN [heap |-> h, conf |-> <<>>]
    ELSE LET e == Head(entries)
             a == IF e.args = <<>> THEN [heap |-> h, id |-> 0] ELSE store(h, e.args[1])
             rest == load_conf(a.heap, Tail(entries))
         IN  [heap |-> rest.heap,
              conf |-> <<[e EXCEPT !.args = IF e.args = <<>> THEN <<>> ELSE <<a.id>>]>>
                       \o rest.conf]

\* workflow.builder as the runner finds it
Builder ==
    [image_id |-> "sha256:abc",
     source |-> [dockerfile_path |-> "/src/Dockerfile", path |-> "/src"],
     base_image |-> [registry |-> "r", namespace |-> "", repo |-> "foo", tag |-> "1"]]

\* what the result map may hold when the runner is constructed
\* (workflow.prebuild_results / workflow.postbuild_results)
EarlierResults ==
    {[k \in {} |-> ""], [k \in {SomePlugin.key, "pre_publish"} |-> "earlier"]}

NoException == [type |-> "", msg |-> ""]

\* the runner is no InputPluginsRunner, or run() has not chosen yet
NoAuto == [autoinput |-> FALSE, autousable |-> <<>>]

\* no entry point of atomic_reactor.api has been called
NoApi == [entry |-> "", push_buildroot_to |-> <<>>, built |-> "", calls |-> <<>>]

\* the result maps there are: the two of the workflow the build runners use,
\* and the dict a runner creates for itself
NoResults ==
    [r \in {"prebuild_results", "postbuild_results", "own"} |-> [k \in {} |-> ""]]

\* the pre-publish runner works on a dict of its own
results_attr_own(runner_class) ==
    IF runner_class = "PreBuildPluginsRunner" THEN "prebuild_results"
    ELSE IF runner_class = "PostBuildPluginsRunner" THEN "postbuild_results"
    ELSE "own"

\* self.plugins_results as the constructors leave it: lines 254, 265, 277, and
\* line 328 / line 95 for a runner that gets a new dict
results_attr(runner_class) ==
    IF runner_class = "PreBuildPluginsRunner" THEN "prebuild_results"
    ELSE IF runner_class \in {"PrePublishPluginsRunner", "PostBuildPluginsRunner"}
    THEN "postbuild_results"
    ELSE "own"

Init ==
    /\ \E entries \in Confs :
          /\ heap = load_conf(<<>>, entries).heap
          /\ plugins_conf = load_conf(<<>>, entries).conf
          /\ conf0 = entries
    /\ plugin_classes = load_plugins
    /\ runner = "PostBuildPluginsRunner"
    /\ results_ref = results_attr(runner)
    /\ \E earlier \in EarlierResults :
          result_maps = [NoResults EXCEPT ![results_ref] = earlier]
    /\ results0 = result_maps[results_ref]
    /\ auto = NoAuto
    /\ workflow = Builder
    /\ \E e \in SomeEnvironments :
          os_environ = e[1] /\ build_is_failing = e[2] /\ osbs = e[3]
    /\ osbs_calls = <<>>
    /\ files = <<>>
    /\ api = NoApi
    /\ pc = "constructed"
    /\ idx = 0
    /\ failed_msgs = <<>>
    /\ plugin_can_fail = TRUE
    /\ plugin_instance = <<>>
    /\ translated = 0
    /\ exc = NoException
    /\ log = <<>>

-----------------------------------------------------------------------------
\* PluginsRunner.run()

Event(ev, i, key, out) == [ev |-> ev, i |-> i, key |-> key, out |-> out]

\* the loop visits the entries last to first
for_loop_reversed(conf, i) == Len(conf) + 1 - i

\* for plugin_request in self.plugins_conf: the position in the list of the
\* i-th entry the loop visits
for_loop(conf, i) == i

position == for_loop(plugins_conf, idx)
plugin_request == plugins_conf[position]

InLoop == pc = "loop" /\ idx <= Len(plugins_conf)

\* plugin_request['name'] raises TypeError or KeyError
NoName == plugin_request.kind = "other" \/ plugin_request.name = <<>>

\* plugin_request.get("args", {}) raises AttributeError
NoGet == plugin_request.kind = "noget"

\* self.plugin_classes[plugin_name] raises KeyError
NoSuchPlugin == plugin_request.name[1] \notin DOMAIN plugin_classes

\* the class default wins over the entry
resolve_class_first(request, plugin_class) == class_can_fail(plugin_class)

\* plugin_request['can_fail'], or the class's can_fail when the entry has none
resolve_can_fail(request, plugin_class) ==
    IF request.can_fail /= <<>> THEN request.can_fail[1]
    ELSE class_can_fail(plugin_class)

\* run() is called on the constructed runner
Run ==
    /\ pc = "constructed"
    /\ pc' = "loop"
    /\ idx' = 1
    /\ failed_msgs' = <<>>
    /\ UNCHANGED <<heap, plugins_conf, plugin_classes, runner, result_maps, results_ref,
                   auto, workflow, plugin_can_fail, plugin_instance, translated, exc,
                   log, conf0, results0, environment, osbs_calls, files, api>>

\* the error of the entry leaves run() instead of being logged
Skip_raises(why) ==
    /\ pc' = "raised"
    /\ exc' = [type |-> "KeyError", msg |-> why]
    /\ log' = Append(log, Event("skip", position, "", why))
    /\ UNCHANGED <<heap, plugins_conf, plugin_classes, runner, result_maps, results_ref,
                   auto, workflow, idx, failed_msgs, plugin_can_fail, plugin_instance,
                   translated, conf0, results0, environment, osbs_calls, files, api>>

\* continue: the entry is left behind and nothing else changes
Skip(why) ==
    /\ idx' = idx + 1
    /\ log' = Append(log, Event("skip", position, "", why))
    /\ UNCHANGED <<heap, plugins_conf, plugin_classes, runner, result_maps, results_ref,
                   auto, workflow, pc, failed_msgs, plugin_can_fail, plugin_instance,
                   translated, exc, conf0, results0, environment, osbs_calls, files,
                   api>>

SkipNoName == InLoop /\ NoName /\ Skip("no key 'name'")

SkipNoArgs == InLoop /\ ~NoName /\ NoGet /\ Skip("no key 'args'")

SkipNoSuchPlugin ==
    InLoop /\ ~NoName /\ ~NoGet /\ NoSuchPlugin /\ Skip("no such plugin")

\* BuildPluginsRunner.create_instance_from_plugin on the heap h: the heap after
\* the call, the translated conf, and the instance or the exception raised
create_instance_from_plugin(h, builder, plugin_class, plugin_conf) ==
    LET r == _translate_special_values(h, builder, plugin_conf)
        translated_conf == r.heap[r.id]
        keywords == {translated_conf.keys[i] : i \in 1..Len(translated_conf.keys)}
    IN  IF translated_conf.t /= "dict" \/ ~binds(plugin_class, keywords)
        THEN [heap |-> r.heap, translated |-> r.id, instance |-> <<>>,
              raised |-> "TypeError"]
        ELSE [heap |-> Append(r.heap, translated_conf), translated |-> r.id,
              instance |-> <<[key |-> plugin_class.key, kwargs |-> Len(r.heap) + 1]>>,
              raised |-> ""]

\* whether plugin_class(**kwargs) binds its arguments for a class whose
\* __init__ takes no tasker and no workflow
binds_keywords(plugin_class, keywords) ==
    /\ plugin_class.required \subseteq keywords
    /\ "self" \notin keywords
    /\ plugin_class.var_keywords
         \/ keywords \subseteq plugin_class.required \cup plugin_class.optional

\* PluginsRunner.create_instance_from_plugin, lines 138-147:
\* plugin_class(**plugin_conf); the instance keeps the keywords in a dict of
\* its own that refers to the very objects of plugin_conf
PluginsRunner_create_instance_from_plugin(h, plugin_class, plugin_conf) ==
    LET conf == h[plugin_conf]
        keywords == {conf.keys[i] : i \in 1..Len(conf.keys)}
    IN  IF conf.t /= "dict" \/ ~binds_keywords(plugin_class, keywords)
        THEN [heap |-> h, translated |-> 0, instance |-> <<>>, raised |-> "TypeError"]
        ELSE [heap |-> Append(h, conf), translated |-> 0,
              instance |-> <<[key |-> plugin_class.key, kwargs |-> Len(h) + 1]>>,
              raised |-> ""]

\* the builder the runner was constructed with
builder_at_construction(w) == Builder

\* self.workflow.builder, read when the values are translated
workflow_builder(w) == w

\* lines 165-177: the class is found, fatality is resolved, the plugin is
\* instantiated; an exception of the instantiation leaves run()
Instantiate ==
    /\ InLoop /\ ~NoName /\ ~NoGet /\ ~NoSuchPlugin
    /\ LET plugin_class == plugin_classes[plugin_request.name[1]]
           \* plugin_request.get("args", {}): the args, or a new empty dict
           h == IF plugin_request.args = <<>> THEN Append(heap, Dict(<<>>, <<>>)) ELSE heap
           plugin_conf == IF plugin_request.args = <<>> THEN Len(h) ELSE plugin_request.args[1]
           c == IF runner = "InputPluginsRunner"
                THEN PluginsRunner_create_instance_from_plugin(h, plugin_class, plugin_conf)
                ELSE create_instance_from_plugin(h, workflow_builder(workflow),
                                                 plugin_class, plugin_conf)
       IN  /\ plugin_can_fail' = resolve_can_fail(plugin_request, plugin_class)
           /\ heap' = c.heap
           /\ translated' = c.translated
           /\ plugin_instance' = c.instance
           /\ IF c.raised = ""
              THEN /\ pc' = "instantiated"
                   /\ exc' = exc
                   /\ log' = Append(log, Event("instantiate", position, plugin_class.key, ""))
              ELSE /\ pc' = "raised"
                   /\ exc' = [type |-> c.raised, msg |-> plugin_class.key]
                   /\ log' = Append(log, Event("instantiate raised", position,
                                               plugin_class.key, c.raised))
    /\ UNCHANGED <<plugins_conf, plugin_classes, runner, result_maps, results_ref, auto,
                   workflow, idx, failed_msgs, conf0, results0, environment, osbs_calls,
                   files, api>>

\* "plugin '%s' raised an exception: '%s'" % (plugin_instance.key, repr(ex))
failure_msg(key, repr_ex) ==
    "plugin '" \o key \o "' raised an exception: '" \o repr_ex \o "'"

\* the plugin empties every dict and list it was given
scribble(h, kwargs) ==
    [i \in 1..Len(h) |->
        IF i \in reachable(h, kwargs) /\ h[i].t /= "str"
        THEN [h[i] EXCEPT !.keys = <<>>, !.kids = <<>>]
        ELSE h[i]]

\* the response is recorded only when run() returned
record_result_on_success(results, key, plugin_response) ==
    IF plugin_response = failure_msg(key, "RuntimeError()") THEN results
    ELSE [k \in DOMAIN results \cup {key} |->
            IF k = key THEN plugin_response ELSE results[k]]

\* self.plugins_results[key] = plugin_response
record_result(results, key, plugin_response) ==
    [k \in DOMAIN results \cup {key} |-> IF k = key THEN plugin_response ELSE results[k]]

\* what workflow.builder may be after the run() of a plugin of this key: a
\* ChangingPlugin sets the built image id, the base image, the source path or
\* the recipe path; the other plugins of the model leave the builder alone
builders_after(key, builder) ==
    IF key = ChangingPlugin.key
    THEN {[builder EXCEPT !.image_id = "sha256:def"],
          [builder EXCEPT !.base_image.repo = "bar"],
          [builder EXCEPT !.source.path = "/squashed"],
          [builder EXCEPT !.source.dockerfile_path = "/squashed/Dockerfile"]}
    ELSE {builder}

\* lines 179-191: the plugin runs (and may change the objects it was given,
\* the workflow among them), its response or its failure is recorded
RunPlugin ==
    /\ pc = "instantiated"
    /\ \E builder \in builders_after(plugin_instance[1].key, workflow) :
          workflow' = builder
    /\ \E outcome \in run_of(plugin_instance[1].key), writes \in BOOLEAN :
          LET key == plugin_instance[1].key
              msg == failure_msg(key, outcome.v)
              plugin_response == IF outcome.raised THEN msg ELSE outcome.v
          IN  /\ heap' = IF writes THEN scribble(heap, plugin_instance[1].kwargs) ELSE heap
              /\ failed_msgs' = IF outcome.raised /\ ~plugin_can_fail
                                THEN Append(failed_msgs, msg) ELSE failed_msgs
              /\ result_maps' = [result_maps EXCEPT
                               ![results_ref] = record_result(plugins_results, key, plugin_response)]
              /\ osbs_calls' = osbs_calls \o outcome.calls
              /\ log' = Append(log, Event(IF outcome.raised THEN "raised" ELSE "returned",
                                          position, key, outcome.v))
    /\ pc' = "loop"
    /\ idx' = idx + 1
    /\ UNCHANGED <<plugins_conf, plugin_classes, runner, results_ref, auto,
                   plugin_can_fail, plugin_instance, translated, exc, conf0, results0,
                   environment, files, api>>

\* str() of a list of strings
RECURSIVE join(_)
join(msgs) ==
    IF Len(msgs) = 0 THEN ""
    ELSE IF Len(msgs) = 1 THEN "'" \o msgs[1] \o "'"
    ELSE "'" \o msgs[1] \o "', " \o join(Tail(msgs))
str(msgs) == "[" \o join(msgs) \o "]"

\* where PluginsRunner.run() returns to: its caller, or line 356 of
\* InputPluginsRunner.run()
returns_to(runner_class) ==
    IF runner_class = "InputPluginsRunner" THEN "super returned" ELSE "returned"

\* lines 192-196: after the loop
Finish ==
    /\ pc = "loop" /\ idx > Len(plugins_conf)
    /\ IF Len(failed_msgs) = 1
       THEN /\ pc' = "raised"
            /\ exc' = [type |-> "PluginFailedException", msg |-> failed_msgs[1]]
       ELSE IF Len(failed_msgs) > 1
       THEN /\ pc' = "raised"
            /\ exc' = [type |-> "PluginFailedException",
                       msg |-> "Multiple plugins raised an exception: " \o str(failed_msgs)]
       ELSE /\ pc' = returns_to(runner)
            /\ exc' = exc
    /\ UNCHANGED <<heap, plugins_conf, plugin_classes, runner, result_maps, results_ref,
                   auto, workflow, idx, failed_msgs, plugin_can_fail, plugin_instance,
                   translated, log, conf0, results0, environment, osbs_calls, files,
                   api>>

Next ==
    \/ Run
    \/ SkipNoName
    \/ SkipNoArgs
    \/ SkipNoSuchPlugin
    \/ Instantiate
    \/ RunPlugin
    \/ Finish

Spec == Init /\ [][Next]_vars

-----------------------------------------------------------------------------
\* Properties of PluginsRunner.run()

RunEnds == {"returned", "raised"}
PluginEvents == {"instantiate", "instantiate raised"} \cup RunEnds
Ran == {p \in 1..Len(log) : log[p].ev \in RunEnds}
LoopCompleted ==
    pc = "returned" \/ (pc = "raised" /\ exc.type = "PluginFailedException")

\* C1: the plugins that run are instantiated and run one after another in the
\* order of their entries in the configuration list: every event of an entry
\* comes before every event of a later entry, and the end of each plugin's
\* run follows the instantiation of that same entry directly.
C1_ConfigurationOrder ==
    \A p, q \in 1..Len(log) :
        /\ (/\ log[p].ev \in PluginEvents
            /\ log[q].ev \in PluginEvents
            /\ log[p].i < log[q].i) => p < q
        /\ log[p].ev \in RunEnds =>
              p > 1 /\ log[p - 1].ev = "instantiate" /\ log[p - 1].i = log[p].i

\* two entries have both run, in this order
C1_Witness ==
    \E p, q \in Ran : p < q /\ log[p].i < log[q].i /\ pc = "returned"

\* the fatality the specification gives entry i: the entry's own can_fail,
\* else the class's, else tolerated
ClaimedCanFail(i) ==
    LET entry == plugins_conf[i]
        class == plugin_classes[entry.name[1]]
    IN  IF entry.can_fail /= <<>> THEN entry.can_fail[1]
        ELSE IF class.can_fail /= <<>> THEN class.can_fail[1]
        ELSE TRUE

FatalRaised == \E p \in Ran : log[p].ev = "raised" /\ ~ClaimedCanFail(log[p].i)

\* the failure marker of the plugin that ran at log position p
Marker(p) ==
    "plugin '" \o log[p].key \o "' raised an exception: '" \o log[p].out \o "'"

\* C2: when run() has ended, it has raised PluginFailedException exactly if a
\* plugin resolved to can_fail=false raised in this run; when none did, run()
\* has returned and every plugin that raised has a failure marker as result.
C2_FailsIffFatalRaised ==
    pc \in {"returned", "raised"} =>
        /\ exc.type = "PluginFailedException" <=> FatalRaised
        /\ ~FatalRaised =>
              /\ pc = "returned"
              /\ \A p \in Ran : log[p].ev = "raised" =>
                    \E q \in Ran : /\ log[q].key = log[p].key
                                   /\ plugins_results[log[p].key] = Marker(q)

\* C3: whatever leaves run() is a PluginFailedException.
C3_OnlyPluginFailedException ==
    pc = "raised" => exc.type = "PluginFailedException"

\* C4: the fatality of an entry is its explicit can_fail if it has one, else
\* the can_fail of its class, else true: this is the value run() holds for the
\* plugin it has instantiated, and the failures collected for the final
\* exception are exactly those of the plugins that raised with that value false.
C4_FatalityPrecedence ==
    /\ pc = "instantiated" => plugin_can_fail = ClaimedCanFail(position)
    /\ Len(failed_msgs) =
          Cardinality({p \in Ran : log[p].ev = "raised" /\ ~ClaimedCanFail(log[p].i)})

\* remove_buildconfigs (class default false) raised under an explicit
\* can_fail=true and was tolerated; some_plugin (default true) raised under an
\* explicit can_fail=false and was fatal
C4_Witness ==
    /\ \E p \in Ran : /\ log[p].ev = "raised"
                      /\ log[p].key = "remove_buildconfigs"
                      /\ plugins_conf[log[p].i].can_fail = <<TRUE>>
    /\ \E p \in Ran : /\ log[p].ev = "raised"
                      /\ log[p].key = "some_plugin"
                      /\ plugins_conf[log[p].i].can_fail = <<FALSE>>
    /\ Len(failed_msgs) = 1
    /\ pc = "raised" /\ exc.type = "PluginFailedException"

\* C5: after run() returned or raised PluginFailedException, the result map
\* holds under the key of every plugin that ran the outcome of its (last) run,
\* the returned value or the failure string; no other key was added or changed.
C5_ResultMap ==
    LoopCompleted =>
        /\ \A p \in Ran :
              (\A q \in Ran : log[q].key = log[p].key => q <= p) =>
                  /\ log[p].key \in DOMAIN plugins_results
                  /\ plugins_results[log[p].key] =
                        IF log[p].ev = "returned" THEN log[p].out ELSE Marker(p)
        /\ DOMAIN plugins_results = DOMAIN results0 \cup {log[p].key : p \in Ran}
        /\ \A k \in DOMAIN results0 \ {log[p].key : p \in Ran} :
              plugins_results[k] = results0[k]

\* run() raised PluginFailedException after a fatal plugin and a tolerated one
\* raised; the map holds both failure strings beside what it held before
C5_Witness ==
    /\ pc = "raised" /\ exc.type = "PluginFailedException"
    /\ \E p, q \in Ran : /\ log[p].ev = "raised" /\ ~ClaimedCanFail(log[p].i)
                         /\ log[q].ev = "raised" /\ ClaimedCanFail(log[q].i)
                         /\ log[p].key /= log[q].key
                         /\ plugins_results[log[p].key] = Marker(p)
                         /\ plugins_results[log[q].key] = Marker(q)
    /\ "pre_publish" \in DOMAIN plugins_results

\* C6: within one run no plugin key is run, and has its result written, more
\* than once, whatever the configuration list.
C6_RunOnce ==
    \A p, q \in Ran : log[p].key = log[q].key => p = q

\* entry i has no 'name', or a name that is no loaded key
Unresolved(i) ==
    \/ plugins_conf[i].kind = "other"
    \/ plugins_conf[i].name = <<>>
    \/ plugins_conf[i].name[1] \notin DOMAIN plugin_classes

\* C7: an entry without 'name' or with a name that is no loaded key is skipped
\* with a logged error: all run() ever does with it is log the skip (nothing
\* is instantiated, nothing raised), no result key appears for its name, and
\* the loop goes on: the next entry is handled next, or the loop has ended
\* normally because the entry was the last.
C7_UnresolvedSkipped ==
    \A p \in 1..Len(log) :
        Unresolved(log[p].i) =>
            /\ log[p].ev = "skip"
            /\ \A q \in 1..Len(log) : log[q].i = log[p].i => q = p
            /\ plugins_conf[log[p].i].kind = "dict" /\ plugins_conf[log[p].i].name /= <<>> =>
                  plugins_conf[log[p].i].name[1] \notin DOMAIN plugins_results
            /\ p < Len(log) => log[p + 1].i = log[p].i + 1
            /\ p = Len(log) =>
                  /\ idx = log[p].i + 1
                  /\ \/ pc = "loop"
                     \/ LoopCompleted /\ log[p].i = Len(plugins_conf)

\* an entry was skipped for its name, a later entry ran, and run() returned
C7_Witness ==
    /\ pc = "returned"
    /\ \E p \in 1..Len(log), q \in Ran :
          /\ p < q /\ log[p].ev = "skip"
          /\ log[p].out \in {"no key 'name'", "no such plugin"}
    /\ \E p \in 1..Len(log) : log[p].ev = "skip" /\ log[p].out = "no such plugin"

\* entry i names a loaded plugin and has args that are not a mapping
NonMappingArgs(i) ==
    /\ plugins_conf[i].kind = "dict"
    /\ plugins_conf[i].args /= <<>>
    /\ heap[plugins_conf[i].args[1]].t /= "dict"

\* C8: an entry whose args are given but are no mapping is logged and skipped:
\* all run() does with it is skip it, so it is not handed to the plugin
\* class and nothing raised for it leaves run().
C8_NonMappingArgsSkipped ==
    \A p \in 1..Len(log) : NonMappingArgs(log[p].i) => log[p].ev = "skip"

-----------------------------------------------------------------------------
\* _translate_special_values on its own: one call on one args tree

\* the sequences over S of length at most n
Seqs(S, n) == UNION {[1..k -> S] : k \in 0..n}

\* keys of the generated dicts, in insertion order
KeyNames == <<"BASE_IMAGE", "k", "BUILT_IMAGE_ID", "z">>

\* the lists and dicts of at most n elements of S
Containers(S, n) ==
    {List(kids) : kids \in Seqs(S, n)}
    \cup {Dict(SubSeq(KeyNames, 1, Len(kids)), kids) : kids \in Seqs(S, n)}

Leaves ==
    {Str(s) : s \in {"BUILT_IMAGE_ID", "BUILD_DOCKERFILE_PATH", "BUILD_SOURCE_PATH",
                     "BASE_IMAGE", "BASE_IMAGE_extra", "my_BUILT_IMAGE_ID", "plain"}}
InnerLeaves == {Str("BASE_IMAGE"), Str("BASE_IMAGE_extra")}
Nested == InnerLeaves \cup Containers(InnerLeaves \cup Containers(InnerLeaves, 1), 1)

\* the objects handed to _translate_special_values
ArgTrees ==
    Leaves \cup Containers(Nested, MaxWidth) \cup {NestedArgs, UrlArgs, ListArgs, StrArgs}

\* workflow.builder after the build, and before it with an unqualified base image
Builders ==
    {Builder,
     [Builder EXCEPT !.image_id = "", !.base_image.registry = "", !.base_image.tag = ""]}

InitTranslate ==
    /\ \E tree \in ArgTrees :
          /\ heap = store(<<>>, tree).heap
          /\ plugins_conf = <<Entry("dict", <<SomePlugin.key>>, <<store(<<>>, tree).id>>, <<>>)>>
          /\ conf0 = <<Entry("dict", <<SomePlugin.key>>, <<tree>>, <<>>)>>
    /\ plugin_classes = load_plugins
    /\ runner = "PostBuildPluginsRunner"
    /\ results_ref = results_attr(runner)
    /\ result_maps = NoResults
    /\ results0 = result_maps[results_ref]
    /\ auto = NoAuto
    /\ os_environ = NoEnvironment[1]
    /\ build_is_failing = NoEnvironment[2]
    /\ osbs = NoEnvironment[3]
    /\ osbs_calls = <<>>
    /\ files = <<>>
    /\ api = NoApi
    /\ workflow \in Builders
    /\ pc = "translate"
    /\ idx = 1
    /\ failed_msgs = <<>>
    /\ plugin_can_fail = TRUE
    /\ plugin_instance = <<>>
    /\ translated = 0
    /\ exc = NoException
    /\ log = <<>>

\* translated_conf = self._translate_special_values(plugin_conf)
Translate ==
    /\ pc = "translate"
    /\ LET r == _translate_special_values(heap, workflow, plugins_conf[1].args[1])
       IN  heap' = r.heap /\ translated' = r.id
    /\ pc' = "translated"
    /\ UNCHANGED <<plugins_conf, plugin_classes, runner, result_maps, results_ref, auto,
                   workflow, idx, failed_msgs, plugin_can_fail, plugin_instance, exc,
                   log, conf0, results0, environment, osbs_calls, files, api>>

SpecTranslate == InitTranslate /\ [][Translate]_vars

-----------------------------------------------------------------------------
\* Properties of the placeholder substitution

\* C9: the configured args of every entry are, at every nesting level, what
\* they were when the runner was constructed, while a build runner executes
\* and after it has: neither the substitution nor a plugin writing into the
\* args it was given reaches the original configuration.
C9_ConfigurationUnchanged ==
    /\ Len(plugins_conf) = Len(conf0)
    /\ \A i \in 1..Len(plugins_conf) :
          /\ plugins_conf[i].args = <<>> <=> conf0[i].args = <<>>
          /\ plugins_conf[i].args /= <<>> =>
                value(heap, plugins_conf[i].args[1]) = conf0[i].args[1]

\* run() returned after a plugin was given the substituted NestedArgs and
\* emptied the nested dict it received
C9_Witness ==
    /\ pc = "returned"
    /\ translated /= 0
    /\ \E p \in Ran : conf0[log[p].i].args = <<NestedArgs>>
    /\ value(heap, translated) =
          Dict(<<"ref", "nested">>, <<Str("r/foo:1"), Dict(<<>>, <<>>)>>)

Tokens == {"BUILT_IMAGE_ID", "BUILD_DOCKERFILE_PATH", "BUILD_SOURCE_PATH", "BASE_IMAGE"}

\* the current workflow value of a token
CurrentValue(token) ==
    CASE token = "BUILT_IMAGE_ID" -> workflow.image_id
      [] token = "BUILD_DOCKERFILE_PATH" -> workflow.source.dockerfile_path
      [] token = "BUILD_SOURCE_PATH" -> workflow.source.path
      [] token = "BASE_IMAGE" -> to_str(workflow.base_image)

\* out is in with exactly the leaves that are tokens replaced
RECURSIVE Substituted(_, _)
Substituted(in, out) ==
    /\ out.t = in.t
    /\ out.keys = in.keys
    /\ Len(out.kids) = Len(in.kids)
    /\ in.t = "str" => out.s = IF in.s \in Tokens THEN CurrentValue(in.s) ELSE in.s
    /\ \A i \in 1..Len(in.kids) : Substituted(in.kids[i], out.kids[i])

\* C10: _translate_special_values returns a tree of the same shape and keys
\* as its argument, in which a leaf is replaced by the current workflow value
\* iff it is exactly one of the four tokens; a leaf that only contains a token
\* and a key equal to a token stay as they are.
C10_ExactSubstitution ==
    pc = "translated" => Substituted(conf0[1].args[1], value(heap, translated))

\* a dict with a key equal to a token, holding a token and a string that only
\* contains one, was translated
C10_Witness ==
    /\ pc = "translated"
    /\ conf0[1].args[1] =
          Dict(<<"BASE_IMAGE", "k">>,
               <<List(<<Str("BASE_IMAGE")>>), Dict(<<"BASE_IMAGE">>, <<Str("BASE_IMAGE_extra")>>)>>)
    /\ value(heap, translated) =
          Dict(<<"BASE_IMAGE", "k">>,
               <<List(<<Str("r/foo:1")>>), Dict(<<"BASE_IMAGE">>, <<Str("BASE_IMAGE_extra")>>)>>)

-----------------------------------------------------------------------------
\* The post-build runner with remove_buildconfigs configured
\* (tests/plugins/test_remove_buildconfigs.py)

\* 'args' of the entry of prepare()
PrepareArgs ==
    Dict(<<"url", "verify_ssl", "use_auth">>, <<Str(""), Str("False"), Str("False")>>)

\* the configurations of the runner: the entry of prepare(), and the same
\* entry with a can_fail of its own
RemoveConfs ==
    {<<Entry("dict", <<RemoveBuildConfigsPlugin.key>>, <<PrepareArgs>>, c)>> :
        c \in {<<>>, <<TRUE>>}}

\* the OSBS instances the plugin may meet: list_buildconfigs raises, or it
\* returns up to MaxList BuildConfigs
OsbsInstances ==
    {Osbs(<<>>, TRUE, {})}
    \cup {Osbs(l, FALSE, r) : l \in Seqs(BuildConfigNames, MaxList),
                              r \in SUBSET BuildConfigNames}

InitRemove ==
    /\ \E entries \in RemoveConfs :
          /\ heap = load_conf(<<>>, entries).heap
          /\ plugins_conf = load_conf(<<>>, entries).conf
          /\ conf0 = entries
    /\ plugin_classes = load_plugins
    /\ runner = "PostBuildPluginsRunner"
    /\ results_ref = results_attr(runner)
    /\ result_maps = NoResults
    /\ results0 = result_maps[results_ref]
    /\ auto = NoAuto
    /\ workflow = Builder
    /\ os_environ \in Builds
    /\ build_is_failing \in BOOLEAN
    /\ osbs \in OsbsInstances
    /\ osbs_calls = <<>>
    /\ files = <<>>
    /\ api = NoApi
    /\ pc = "constructed"
    /\ idx = 0
    /\ failed_msgs = <<>>
    /\ plugin_can_fail = TRUE
    /\ plugin_instance = <<>>
    /\ translated = 0
    /\ exc = NoException
    /\ log = <<>>

NextRemove ==
    \/ Run
    \/ Instantiate
    \/ RunPlugin
    \/ Finish

SpecRemove == InitRemove /\ [][NextRemove]_vars

\* the labels of the build, {} when there is no BUILD
labels == IF os_environ = Absent THEN NoLabels ELSE labels_of(os_environ[1])

\* the plugin's run() has ended
PluginRan == \E p \in Ran : log[p].key = RemoveBuildConfigsPlugin.key

\* the names delete_buildconfig was called with, in order
Deleted ==
    LET deletions == SelectSeq(osbs_calls, LAMBDA c : c.op = "delete_buildconfig")
    IN  [i \in 1..Len(deletions) |-> deletions[i].arg]

Listings == {p \in 1..Len(osbs_calls) : osbs_calls[p].op = "list_buildconfigs"}

\* the names list_buildconfigs returned
Listed == {osbs.buildconfigs[i] : i \in 1..Len(osbs.buildconfigs)}

\* C16: when the build is failing and its labels name a buildconfig, the
\* plugin deletes exactly one BuildConfig, the build's own, and never lists
\* BuildConfigs.
C16_FailingDeletesOwn ==
    (build_is_failing /\ "buildconfig" \in DOMAIN labels) =>
        /\ Listings = {}
        /\ Deleted = IF PluginRan THEN <<labels["buildconfig"]>> ELSE <<>>

\* the plugin has run for a failing build while OSBS had other BuildConfigs
C16_Witness ==
    /\ build_is_failing /\ "buildconfig" \in DOMAIN labels
    /\ PluginRan /\ pc = "returned"
    /\ Deleted = <<my_buildconfig_id>>
    /\ Listed \ {my_buildconfig_id} /= {}

Succeeding ==
    /\ ~build_is_failing
    /\ {"buildconfig", "product-component"} \subseteq DOMAIN labels

\* C17: when the build is not failing and its labels carry both buildconfig
\* and product-component, then whatever the listing for that product-component
\* returns, the plugin requests the deletion of every listed BuildConfig whose
\* name differs from the build's own, and never that of the build's own.
C17_SucceedingDeletesOthers ==
    (Succeeding /\ PluginRan /\ ~osbs.list_raises) =>
        /\ \E p \in Listings :
              osbs_calls[p].arg = "product-component=" \o labels["product-component"]
        /\ \A name \in Listed \ {labels["buildconfig"]} :
              \E d \in 1..Len(Deleted) : Deleted[d] = name
        /\ \A d \in 1..Len(Deleted) : Deleted[d] /= labels["buildconfig"]

\* the listing held the build's own BuildConfig between two others
C17_Witness ==
    /\ Succeeding /\ PluginRan
    /\ osbs.buildconfigs = <<"buildconfig1", my_buildconfig_id, "buildconfig2">>
    /\ Deleted = <<"buildconfig1", "buildconfig2">>
    /\ pc = "returned"

\* a listed BuildConfig other than the build's own cannot be deleted
DeletionFails ==
    /\ Succeeding /\ ~osbs.list_raises
    /\ (Listed \ {labels["buildconfig"]}) \cap osbs.refuses /= {}

\* C18: for a succeeding build, when delete_buildconfig fails for a listed
\* BuildConfig, the deletion of every other listed BuildConfig (own excluded)
\* has been attempted by the time the plugin raises, the plugin does raise,
\* and the runner, for which remove_buildconfigs is can_fail=false, ends with
\* PluginFailedException.
C18_FailureDoesNotStopRemoval ==
    DeletionFails =>
        /\ \A p \in Ran :
              /\ log[p].ev = "raised"
              /\ \A name \in Listed \ {labels["buildconfig"]} :
                    \E d \in 1..Len(Deleted) : Deleted[d] = name
        /\ (pc \in RunEnds /\ plugins_conf[1].can_fail = <<>>) =>
              pc = "raised" /\ exc.type = "PluginFailedException"

\* the first deletion failed, the second was still made, the runner raised
C18_Witness ==
    /\ DeletionFails
    /\ osbs.buildconfigs = <<my_buildconfig_id, "buildconfig1", "buildconfig2">>
    /\ osbs.refuses = {"buildconfig1"}
    /\ Deleted = <<"buildconfig1", "buildconfig2">>
    /\ plugins_conf[1].can_fail = <<>>
    /\ pc = "raised" /\ exc.type = "PluginFailedException"

\* no BUILD; BUILD without a buildconfig label; build not failing and no
\* product-component label
EarlyExit ==
    \/ os_environ = Absent
    \/ "buildconfig" \notin DOMAIN labels
    \/ ~build_is_failing /\ "product-component" \notin DOMAIN labels

\* C19: on each early-exit path of the plugin neither delete_buildconfig nor
\* list_buildconfigs is ever called, and the run() of the runner returns
\* without raising.
C19_EarlyExitCallsNothing ==
    EarlyExit =>
        /\ osbs_calls = <<>>
        /\ pc /= "raised"
        /\ \A p \in Ran : log[p].ev = "returned"

\* the build names its buildconfig, does not fail and has no
\* product-component, OSBS has BuildConfigs that cannot be deleted, and the
\* runner has returned
C19_Witness ==
    /\ os_environ /= Absent /\ "buildconfig" \in DOMAIN labels
    /\ ~build_is_failing /\ "product-component" \notin DOMAIN labels
    /\ osbs.buildconfigs /= <<>> /\ osbs.refuses /= {}
    /\ PluginRan /\ pc = "returned"

-----------------------------------------------------------------------------
\* The build runners of one workflow, one after the other: pre-build,
\* pre-publish, post-build

PhaseOrder ==
    <<"PreBuildPluginsRunner", "PrePublishPluginsRunner", "PostBuildPluginsRunner">>

\* a pre-publish plugin
PrePublishPlugin == [SomePlugin EXCEPT !.key = "pre_publish"]

\* the classes load_plugins finds for the runner's phase; some_plugin is a key
\* declared in every phase
classes_of(runner_class) ==
    IF runner_class = "PostBuildPluginsRunner" THEN load_plugins
    ELSE IF runner_class = "PrePublishPluginsRunner"
    THEN [k \in {SomePlugin.key, PrePublishPlugin.key} |->
            IF k = SomePlugin.key THEN SomePlugin ELSE PrePublishPlugin]
    ELSE [k \in {SomePlugin.key} |-> SomePlugin]

\* the plugin lists of the build request: at most one entry for each phase
PhaseConfs(runner_class) ==
    {<<>>}
    \cup {<<Entry("dict", <<k>>,
                  IF k = RemoveBuildConfigsPlugin.key THEN <<PrepareArgs>> ELSE <<>>,
                  <<>>)>> : k \in DOMAIN classes_of(runner_class)}

InitPhases ==
    /\ runner = PhaseOrder[1]
    /\ \E entries \in PhaseConfs(runner) :
          /\ heap = load_conf(<<>>, entries).heap
          /\ plugins_conf = load_conf(<<>>, entries).conf
          /\ conf0 = entries
    /\ plugin_classes = classes_of(runner)
    /\ results_ref = results_attr(runner)
    /\ result_maps = NoResults
    /\ results0 = result_maps[results_ref]
    /\ auto = NoAuto
    /\ workflow = Builder
    /\ \E e \in SomeEnvironments :
          os_environ = e[1] /\ build_is_failing = e[2] /\ osbs = e[3]
    /\ osbs_calls = <<>>
    /\ files = <<>>
    /\ api = NoApi
    /\ pc = "constructed"
    /\ idx = 0
    /\ failed_msgs = <<>>
    /\ plugin_can_fail = TRUE
    /\ plugin_instance = <<>>
    /\ translated = 0
    /\ exc = NoException
    /\ log = <<Event("constructed", 0, runner, "")>>

\* the run() of a runner has returned and the workflow constructs the runner
\* of the next phase
NextRunner ==
    /\ pc = "returned"
    /\ \E n \in 1..(Len(PhaseOrder) - 1) :
          /\ runner = PhaseOrder[n]
          /\ runner' = PhaseOrder[n + 1]
    /\ \E entries \in PhaseConfs(runner') :
          /\ heap' = load_conf(heap, entries).heap
          /\ plugins_conf' = load_conf(heap, entries).conf
          /\ conf0' = entries
    /\ plugin_classes' = classes_of(runner')
    /\ results_ref' = results_attr(runner')
    /\ results0' = result_maps[results_ref']
    /\ pc' = "constructed"
    /\ idx' = 0
    /\ plugin_instance' = <<>>
    /\ translated' = 0
    /\ log' = Append(log, Event("constructed", 0, runner', ""))
    /\ UNCHANGED <<result_maps, auto, workflow, failed_msgs, plugin_can_fail, exc,
                   environment, osbs_calls, files, api>>

NextPhases ==
    \/ Run
    \/ Instantiate
    \/ RunPlugin
    \/ Finish
    \/ NextRunner

SpecPhases == InitPhases /\ [][NextPhases]_vars

\* the runner that made the event at log position p
RunnerAt(p) ==
    LET q == CHOOSE c \in 1..p :
                 /\ log[c].ev = "constructed"
                 /\ \A d \in (c + 1)..p : log[d].ev /= "constructed"
    IN  log[q].key

\* the results the plugins of these runners produced, the last one of each key
Recorded(runners) ==
    LET ps == {p \in Ran : RunnerAt(p) \in runners}
        last(k) == CHOOSE p \in ps :
                       log[p].key = k /\ \A q \in ps : log[q].key = k => q <= p
    IN  [k \in {log[p].key : p \in ps} |->
            IF log[last(k)].ev = "raised" THEN Marker(last(k)) ELSE log[last(k)].out]

\* C12: the pre-publish runner and the post-build runner of one workflow write
\* into one and the same map, the workflow's postbuild results: it holds what
\* the plugins of both recorded, and it is the map the post-build runner reads
\* and returns; the map of the pre-build runner holds what the pre-build
\* plugins recorded and nothing the other two wrote.
C12_PostbuildResultsShared ==
    /\ result_maps["postbuild_results"] =
          Recorded({"PrePublishPluginsRunner", "PostBuildPluginsRunner"})
    /\ result_maps["prebuild_results"] = Recorded({"PreBuildPluginsRunner"})
    /\ runner = "PostBuildPluginsRunner" =>
          plugins_results = Recorded({"PrePublishPluginsRunner", "PostBuildPluginsRunner"})
    /\ runner = "PreBuildPluginsRunner" =>
          plugins_results = Recorded({"PreBuildPluginsRunner"})

\* each of the three runners recorded a result, and the post-build runner
\* returns a map with the result of the pre-publish plugin in it
C12_Witness ==
    /\ runner = "PostBuildPluginsRunner" /\ pc = "returned"
    /\ \E p \in Ran : RunnerAt(p) = "PrePublishPluginsRunner"
                       /\ log[p].key = PrePublishPlugin.key
                       /\ plugins_results[PrePublishPlugin.key] = log[p].out
    /\ \E p \in Ran : RunnerAt(p) = "PostBuildPluginsRunner"
                       /\ log[p].key = RemoveBuildConfigsPlugin.key
    /\ DOMAIN plugins_results = {PrePublishPlugin.key, RemoveBuildConfigsPlugin.key}
    /\ DOMAIN result_maps["prebuild_results"] = {SomePlugin.key}

-----------------------------------------------------------------------------
\* InputPluginsRunner

\* an input plugin class: InputPlugin.__init__(self, substitutions=None, **kwargs),
\* and what its is_autousable() answers
InputPluginClass(key, autousable) ==
    [key |-> key, can_fail |-> <<>>, required |-> {}, optional |-> {"substitutions"},
     var_keywords |-> TRUE, autousable |-> autousable]

InputKeys == {"path", "osv3", "env"}

\* what load_plugins may have found for 'InputPlugin': the three classes, each
\* usable here or not
InputRegistries ==
    {[k \in InputKeys |-> InputPluginClass(k, k \in usable)] : usable \in SUBSET InputKeys}

\* the first entry: 'auto' or a plugin by its key
FirstInputEntries ==
    {Entry("dict", <<n>>, a, c) :
        n \in {"auto", "path"}, a \in {<<>>, <<UrlArgs>>, <<ListArgs>>},
        c \in {<<>>, <<FALSE>>}}

\* the entries that may follow it
MoreInputEntries ==
    {Entry("other", <<>>, <<>>, <<>>),
     Entry("noget", <<"osv3">>, <<>>, <<>>),
     Entry("dict", <<"no_such_plugin">>, <<>>, <<>>),
     Entry("dict", <<"auto">>, <<>>, <<>>)}
    \cup {Entry("dict", <<k>>, <<>>, <<>>) : k \in InputKeys}

InputConfs ==
    {<<first>> : first \in FirstInputEntries}
    \cup {<<first, second>> : first \in FirstInputEntries, second \in MoreInputEntries}

\* InputPluginsRunner.__init__, lines 326-329
InitInput ==
    /\ \E entries \in InputConfs :
          /\ heap = load_conf(<<>>, entries).heap
          /\ plugins_conf = load_conf(<<>>, entries).conf
          /\ conf0 = entries
          /\ auto = [autoinput |-> entries[1].name[1] = "auto", autousable |-> <<>>]
    /\ plugin_classes \in InputRegistries
    /\ runner = "InputPluginsRunner"
    /\ results_ref = results_attr(runner)
    /\ result_maps = NoResults
    /\ results0 = result_maps[results_ref]
    /\ workflow = Builder
    /\ os_environ = NoEnvironment[1]
    /\ build_is_failing = NoEnvironment[2]
    /\ osbs = NoEnvironment[3]
    /\ osbs_calls = <<>>
    /\ files = <<>>
    /\ api = NoApi
    /\ pc = "constructed"
    /\ idx = 0
    /\ failed_msgs = <<>>
    /\ plugin_can_fail = TRUE
    /\ plugin_instance = <<>>
    /\ translated = 0
    /\ exc = NoException
    /\ log = <<>>

\* the orders in which a dict of these keys may be iterated
Orders(keys) ==
    {o \in [1..Cardinality(keys) -> keys] : {o[i] : i \in 1..Cardinality(keys)} = keys}

more_than_one(first, second) ==
    "More than one usable plugin with \"auto\" input: " \o first \o ", " \o second
        \o ". Please specify --input explicitly."
none_autousable == "No autousable input plugin. Please specify --input explicitly"

\* the first usable class in the order of the dict is taken and the classes
\* after it are not asked
RECURSIVE take_first(_, _, _)
take_first(classes, order, autousable) ==
    IF order = <<>>
    THEN [raised |-> TRUE, msg |-> none_autousable, autousable |-> <<>>]
    ELSE IF classes[Head(order)].autousable
    THEN [raised |-> FALSE, msg |-> "", autousable |-> <<Head(order)>>]
    ELSE take_first(classes, Tail(order), autousable)

\* lines 340-352: the loop over self.plugin_classes.items() in the order the
\* dict yields them, and the test after it
RECURSIVE choose_autousable(_, _, _)
choose_autousable(classes, order, autousable) ==
    IF order = <<>>
    THEN IF autousable = <<>>
         THEN [raised |-> TRUE, msg |-> none_autousable, autousable |-> <<>>]
         ELSE [raised |-> FALSE, msg |-> "", autousable |-> autousable]
    ELSE LET clsname == Head(order)
         IN  IF classes[clsname].autousable
             THEN IF autousable /= <<>>
                  THEN [raised |-> TRUE, msg |-> more_than_one(autousable[1], clsname),
                        autousable |-> autousable]
                  ELSE choose_autousable(classes, Tail(order), <<clsname>>)
             ELSE choose_autousable(classes, Tail(order), autousable)

\* InputPluginsRunner.run() up to super().run(), lines 338-356: with 'auto'
\* the usable plugin is chosen and written into the first entry, then
\* PluginsRunner.run() starts
InputRun ==
    /\ pc = "constructed"
    /\ runner = "InputPluginsRunner"
    /\ IF auto.autoinput
       THEN \E order \in Orders(DOMAIN plugin_classes) :
               LET chosen == choose_autousable(plugin_classes, order, <<>>)
               IN  IF chosen.raised
                   THEN /\ pc' = "raised"
                        /\ exc' = [type |-> "PluginFailedException", msg |-> chosen.msg]
                        /\ UNCHANGED <<plugins_conf, auto, idx, failed_msgs>>
                   ELSE /\ auto' = [auto EXCEPT !.autousable = chosen.autousable]
                        /\ plugins_conf' = [plugins_conf EXCEPT ![1].name = chosen.autousable]
                        /\ pc' = "loop"
                        /\ idx' = 1
                        /\ failed_msgs' = <<>>
                        /\ exc' = exc
       ELSE /\ pc' = "loop"
            /\ idx' = 1
            /\ failed_msgs' = <<>>
            /\ UNCHANGED <<plugins_conf, auto, exc>>
    /\ UNCHANGED <<heap, plugin_classes, runner, result_maps, results_ref, workflow,
                   plugin_can_fail, plugin_instance, translated, log, conf0, results0,
                   environment, osbs_calls, files, api>>

\* the result is copied to 'auto' and stays under the plugin's key too
copy_to_auto(result, autousable) ==
    [k \in DOMAIN result \cup {"auto"} |-> IF k = "auto" THEN result[autousable] ELSE result[k]]

\* result['auto'] = result.pop(autousable)
pop_to_auto(result, autousable) ==
    [k \in (DOMAIN result \ {autousable}) \cup {"auto"} |->
        IF k = "auto" THEN result[autousable] ELSE result[k]]

\* lines 356-360: super().run() has returned; with 'auto' the result of the
\* chosen plugin is moved to the key 'auto'; a KeyError of pop() leaves run()
InputReturn ==
    /\ pc = "super returned"
    /\ IF ~auto.autoinput
       THEN pc' = "returned" /\ UNCHANGED <<result_maps, exc>>
       ELSE IF auto.autousable[1] \in DOMAIN plugins_results
       THEN /\ result_maps' = [result_maps EXCEPT
                                 ![results_ref] = pop_to_auto(plugins_results, auto.autousable[1])]
            /\ pc' = "returned"
            /\ exc' = exc
       ELSE /\ pc' = "raised"
            /\ exc' = [type |-> "KeyError", msg |-> auto.autousable[1]]
            /\ UNCHANGED result_maps
    /\ UNCHANGED <<heap, plugins_conf, plugin_classes, runner, results_ref, auto,
                   workflow, idx, failed_msgs, plugin_can_fail, plugin_instance,
                   translated, log, conf0, results0, environment, osbs_calls, files,
                   api>>

NextInput ==
    \/ InputRun
    \/ SkipNoName
    \/ SkipNoArgs
    \/ SkipNoSuchPlugin
    \/ Instantiate
    \/ RunPlugin
    \/ Finish
    \/ InputReturn

SpecInput == InitInput /\ [][NextInput]_vars

\* the loaded input plugins that report themselves usable
Usable == {k \in DOMAIN plugin_classes : plugin_classes[k].autousable}

\* the result the plugin of this key recorded last
LastResult(key) ==
    LET last == CHOOSE p \in Ran : log[p].key = key /\ \A q \in Ran : log[q].key = key => q <= p
    IN  IF log[last].ev = "raised" THEN Marker(last) ELSE log[last].out

C11_WitnessAmbiguous ==
    /\ auto.autoinput /\ Cardinality(Usable) = 3
    /\ pc = "raised" /\ exc.type = "PluginFailedException"

-----------------------------------------------------------------------------
\* PluginsRunner.load_plugins(), as PluginsRunner.__init__ calls it

\* most plugin files load_plugins finds
MaxFiles == 2

\* plugin_class_name as the constructors of the runners pass it
plugin_class_name_of(runner_class) ==
    IF runner_class = "PreBuildPluginsRunner" THEN "PreBuildPlugin"
    ELSE IF runner_class = "PrePublishPluginsRunner" THEN "PrePublishPlugin"
    ELSE IF runner_class = "PostBuildPluginsRunner" THEN "PostBuildPlugin"
    ELSE "InputPlugin"

\* a class as a module binds it: the plugin class cls, defined in module as
\* name, with the base classes of atomic_reactor.plugin it is a subclass of
\* (itself among them)
LoadedClass(cls, module, name, ancestors) ==
    [key |-> cls.key, can_fail |-> cls.can_fail, required |-> cls.required,
     optional |-> cls.optional, var_keywords |-> cls.var_keywords,
     is_class |-> TRUE, module |-> module, name |-> name, ancestors |-> ancestors]

\* a binding that is no class: a module, a function, None
NotAClass(name) ==
    [key |-> "", can_fail |-> <<>>, required |-> {}, optional |-> {},
     var_keywords |-> FALSE,
     is_class |-> FALSE, module |-> "", name |-> name, ancestors |-> {}]

\* the base class of a phase, as a plugin file imports it
BaseClass(name) ==
    LoadedClass([SomePlugin EXCEPT !.key = "None"], "atomic_reactor.plugin", name,
                {"Plugin", "BuildPlugin", name})

ClassId(binding) == binding.module \o "." \o binding.name

\* a plugin file: the exception imp.load_source raises for it ("" when it
\* loads), and what dir() of the module yields, in that order
PluginFile(f, error, bindings) == [f |-> f, error |-> error, bindings |-> bindings]

\* the exceptions line 120 catches
Caught == {"IOError", "OSError", "ImportError", "SyntaxError"}

\* the exceptions the evaluation of a file may end with
LoadErrors == Caught \cup {"NameError"}

\* plugins/post_remove_buildconfigs.py
RemoveBuildConfigsFile ==
    PluginFile("post_remove_buildconfigs.py", "",
        <<BaseClass("PostBuildPlugin"),
          LoadedClass(RemoveBuildConfigsPlugin, "post_remove_buildconfigs",
                      "RemoveBuildConfigsPlugin", {"Plugin", "BuildPlugin", "PostBuildPlugin"}),
          NotAClass("json")>>)

\* a file with a pre-build plugin
PreBuildFile ==
    PluginFile("pre_some_plugin.py", "",
        <<BaseClass("PreBuildPlugin"),
          LoadedClass(SomePlugin, "pre_some_plugin", "SomePlugin",
                      {"Plugin", "BuildPlugin", "PreBuildPlugin"})>>)

\* a file with another post-build plugin of the key remove_buildconfigs
SameKeyFile ==
    PluginFile("post_cleanup.py", "",
        <<LoadedClass([SomePlugin EXCEPT !.key = RemoveBuildConfigsPlugin.key],
                      "post_cleanup", "CleanupPlugin",
                      {"Plugin", "BuildPlugin", "PostBuildPlugin"}),
          BaseClass("PostBuildPlugin")>>)

\* a file whose post-build plugin is a class named PostBuildPlugin
\* (class PostBuildPlugin(atomic_reactor.plugin.PostBuildPlugin))
SameNameFile ==
    PluginFile("post_same_name.py", "",
        <<LoadedClass([SomePlugin EXCEPT !.key = "same_name"],
                      "post_same_name", "PostBuildPlugin",
                      {"Plugin", "BuildPlugin", "PostBuildPlugin"})>>)

\* a file whose evaluation ends with this exception
BadFile(error) == PluginFile("bad_" \o error \o ".py", error, <<>>)

PluginFiles ==
    {RemoveBuildConfigsFile, PreBuildFile, SameKeyFile, SameNameFile}
    \cup {BadFile(error) : error \in LoadErrors}

\* the configurations the runner is constructed with: one entry by key
LoadConfs ==
    {<<Entry("dict", <<k>>, <<PrepareArgs>>, <<>>)>> :
        k \in {RemoveBuildConfigsPlugin.key, SomePlugin.key, "same_name"}}

\* PluginsRunner.__init__ up to line 98, load_plugins up to line 114
InitLoad ==
    /\ files \in Seqs(PluginFiles, MaxFiles)
    /\ runner \in {"PreBuildPluginsRunner", "PostBuildPluginsRunner"}
    /\ \E entries \in LoadConfs :
          /\ heap = load_conf(<<>>, entries).heap
          /\ plugins_conf = load_conf(<<>>, entries).conf
          /\ conf0 = entries
    /\ plugin_classes = [k \in {} |-> NotAClass("")]
    /\ results_ref = results_attr(runner)
    /\ result_maps = NoResults
    /\ results0 = result_maps[results_ref]
    /\ auto = NoAuto
    /\ workflow = Builder
    /\ os_environ = NoEnvironment[1]
    /\ build_is_failing = NoEnvironment[2]
    /\ osbs = NoEnvironment[3]
    /\ osbs_calls = <<>>
    /\ api = NoApi
    /\ pc = "loading"
    /\ idx = 1
    /\ failed_msgs = <<>>
    /\ plugin_can_fail = TRUE
    /\ plugin_instance = <<>>
    /\ translated = 0
    /\ exc = NoException
    /\ log = <<>>

\* issubclass(binding, plugin_class), False when it raises TypeError
is_sub(binding, plugin_class_name) ==
    binding.is_class /\ plugin_class_name \in binding.ancestors

\* line 134: binding and is_sub and plugin_class.__name__ != binding.__name__
accepts(binding, plugin_class_name) ==
    is_sub(binding, plugin_class_name) /\ plugin_class_name /= binding.name

\* lines 123-135 for the bindings of one module: the classes indexed so far
\* and the record of each class indexed
RECURSIVE index_bindings(_, _, _, _)
index_bindings(classes, bindings, plugin_class_name, i) ==
    IF bindings = <<>> THEN [classes |-> classes, accepted |-> <<>>]
    ELSE LET binding == Head(bindings)
             indexed == IF accepts(binding, plugin_class_name)
                        THEN [k \in DOMAIN classes \cup {binding.key} |->
                                IF k = binding.key THEN binding ELSE classes[k]]
                        ELSE classes
             rest == index_bindings(indexed, Tail(bindings), plugin_class_name, i)
         IN  [classes |-> rest.classes,
              accepted |-> (IF accepts(binding, plugin_class_name)
                            THEN <<Event("indexed", i, binding.key, ClassId(binding))>>
                            ELSE <<>>) \o rest.accepted]

LoadVars ==
    <<heap, plugins_conf, runner, result_maps, results_ref, auto, workflow, failed_msgs,
      plugin_can_fail, plugin_instance, translated, conf0, results0, environment,
      osbs_calls, files, api>>

Loading == pc = "loading" /\ idx <= Len(files)

\* lines 118-122: imp.load_source raises an exception that is caught; the
\* file is reported and left out
LoadFileSkipped ==
    /\ Loading
    /\ files[idx].error \in Caught
    /\ log' = Append(log, Event("warning", idx, "", "can't load module '" \o files[idx].f
                                    \o "': " \o files[idx].error))
    /\ idx' = idx + 1
    /\ UNCHANGED <<plugin_classes, pc, exc>>
    /\ UNCHANGED LoadVars

\* line 119: imp.load_source raises an exception that line 120 does not
\* catch; it leaves load_plugins and the constructor
LoadFileRaises ==
    /\ Loading
    /\ files[idx].error \notin Caught \cup {""}
    /\ pc' = "raised"
    /\ exc' = [type |-> files[idx].error, msg |-> files[idx].f]
    /\ UNCHANGED <<plugin_classes, idx, log>>
    /\ UNCHANGED LoadVars

\* lines 119, 123-135: the module is loaded and its plugin classes are indexed
LoadFile ==
    /\ Loading
    /\ files[idx].error = ""
    /\ LET r == index_bindings(plugin_classes, files[idx].bindings,
                               plugin_class_name_of(runner), idx)
       IN  /\ plugin_classes' = r.classes
           /\ log' = log \o r.accepted
    /\ idx' = idx + 1
    /\ UNCHANGED <<pc, exc>>
    /\ UNCHANGED LoadVars

\* line 136 and the end of PluginsRunner.__init__
Loaded ==
    /\ pc = "loading" /\ idx > Len(files)
    /\ pc' = "constructed"
    /\ idx' = 0
    /\ UNCHANGED <<plugin_classes, exc, log>>
    /\ UNCHANGED LoadVars

NextLoad ==
    \/ LoadFileSkipped
    \/ LoadFileRaises
    \/ LoadFile
    \/ Loaded
    \/ Run
    \/ SkipNoSuchPlugin
    \/ Instantiate
    \/ RunPlugin
    \/ Finish

SpecLoad == InitLoad /\ [][NextLoad]_vars

\* load_plugins has ended
LoadEnded == pc /= "loading"

\* load_plugins has returned
LoadReturned == LoadEnded /\ exc.type \notin LoadErrors

\* the files load_plugins went through
Visited == IF LoadReturned THEN 1..Len(files) ELSE 1..(idx - 1)

\* the bindings of the files that loaded, as <<file, position in dir()>>
Candidates ==
    UNION {{<<i, b>> : b \in 1..Len(files[i].bindings)} :
              i \in {v \in Visited : files[v].error = ""}}

Binding(c) == files[c[1]].bindings[c[2]]

\* the phase the runner loads plugins for
Phase == plugin_class_name_of(runner)

\* load_plugins indexed the class of this binding
Indexed(c) ==
    \E p \in 1..Len(log) :
        log[p].ev = "indexed" /\ log[p].i = c[1] /\ log[p].out = ClassId(Binding(c))

\* the file was reported
Reported(i) == \E p \in 1..Len(log) : log[p].ev = "warning" /\ log[p].i = i

\* C13: whatever files fail while they are parsed or evaluated, and with
\* whatever error, load_plugins does not fail: it reports and skips each of
\* them and returns the plugins of the other files.
C13_BadFilesSkipped ==
    LoadEnded =>
        /\ exc.type \notin LoadErrors
        /\ \A i \in Visited : files[i].error /= "" => Reported(i)
        /\ \A c \in Candidates :
              accepts(Binding(c), Phase) => Binding(c).key \in DOMAIN plugin_classes

\* a binding is a subclass of the base class of the phase and not that class
Genuine(binding, plugin_class_name) ==
    /\ binding.is_class
    /\ plugin_class_name \in binding.ancestors
    /\ ClassId(binding) /= "atomic_reactor.plugin." \o plugin_class_name

\* the positions of the log where a class of this key was indexed
IndexedAs(key) == {p \in 1..Len(log) : log[p].ev = "indexed" /\ log[p].key = key}

\* C14: when two plugin classes loaded for the phase declare the same key,
\* the class loaded last is the one indexed under the key, and the collision
\* is reported as a warning.
C14_KeyCollision ==
    LoadReturned =>
        \A p, q \in 1..Len(log) :
            (/\ p < q
             /\ q \in IndexedAs(log[p].key) /\ p \in IndexedAs(log[p].key)
             /\ log[p].out /= log[q].out
             /\ \A r \in IndexedAs(log[p].key) : r <= q) =>
                /\ ClassId(plugin_classes[log[p].key]) = log[q].out
                /\ \E w \in 1..Len(log) : log[w].ev = "warning" /\ log[w].key = log[p].key

\* C15: load_plugins for a phase indexes a class of a plugin file exactly if
\* it is a subclass of the base class of the phase and not that base class
\* itself, whatever its name; so no class of another phase is indexed, and an
\* entry naming one is skipped.
C15_AcceptsGenuineSubclasses ==
    LoadReturned =>
        /\ \A c \in Candidates : Indexed(c) <=> Genuine(Binding(c), Phase)
        /\ \A k \in DOMAIN plugin_classes : Phase \in plugin_classes[k].ancestors
        /\ \A p \in 1..Len(log) :
              log[p].ev \in PluginEvents => Phase \in plugin_classes[log[p].key].ancestors

-----------------------------------------------------------------------------
\* The entry points of atomic_reactor.api

ApiEntries ==
    {"build_image_in_privileged_container", "build_image_using_hosts_docker",
     "build_image_here"}

\* the two entry points that take build_image and push_buildroot_to
InContainer == {"build_image_in_privileged_container", "build_image_using_hosts_docker"}

\* the class whose build the entry point runs
manager_of(entry) ==
    IF entry = "build_image_in_privileged_container" THEN "PrivilegedBuildManager"
    ELSE IF entry = "build_image_using_hosts_docker" THEN "DockerhostBuildManager"
    ELSE "DockerBuildWorkflow"

\* how m.build() / m.build_docker_image() may end: it returns the results of
\* a build that succeeded, it returns the results of a build that failed, or
\* it raises
BuildOutcomes == {"succeeded", "failed", "raised"}

\* push_buildroot_to: not given (None), the empty string, a repository
PushBuildrootTo == {<<>>, <<"">>, <<"registry/buildroot">>}

\* if push_buildroot_to:
truthy(push_buildroot_to) == push_buildroot_to /= <<>> /\ push_buildroot_to[1] /= ""

\* the call of an entry point, up to the construction of m
InitApi ==
    /\ \E entry \in ApiEntries, push \in PushBuildrootTo, dont_pull \in BOOLEAN :
          api = [entry |-> entry, push_buildroot_to |-> push, built |-> "",
                 calls |-> <<Call(manager_of(entry),
                                  IF dont_pull THEN "dont_pull_base_image" ELSE "")>>]
    /\ pc = "called"
    /\ exc = NoException
    /\ heap = <<>>
    /\ plugins_conf = <<>>
    /\ conf0 = <<>>
    /\ plugin_classes = load_plugins
    /\ runner = ""
    /\ results_ref = "own"
    /\ result_maps = NoResults
    /\ results0 = result_maps[results_ref]
    /\ auto = NoAuto
    /\ workflow = Builder
    /\ os_environ = NoEnvironment[1]
    /\ build_is_failing = NoEnvironment[2]
    /\ osbs = NoEnvironment[3]
    /\ osbs_calls = <<>>
    /\ files = <<>>
    /\ idx = 0
    /\ failed_msgs = <<>>
    /\ plugin_can_fail = TRUE
    /\ plugin_instance = <<>>
    /\ translated = 0
    /\ log = <<>>

ApiVars ==
    <<heap, plugins_conf, plugin_classes, runner, result_maps, results_ref, auto,
      workflow, idx, failed_msgs, plugin_can_fail, plugin_instance, translated,
      log, conf0, results0, environment, osbs_calls, files>>

\* an exception of the manager leaves the entry point
ApiRaise(type) ==
    /\ pc' = "raised"
    /\ exc' = [type |-> type, msg |-> api.entry]

\* lines 52, 90, 124: build_response = m.build(), m.build_docker_image()
ApiBuild ==
    /\ pc = "called"
    /\ \E outcome \in BuildOutcomes :
          /\ api' = [api EXCEPT !.built = outcome,
                                !.calls = Append(@, Call("build", outcome))]
          /\ IF outcome = "raised" THEN ApiRaise("RuntimeError")
             ELSE pc' = "built" /\ exc' = exc
    /\ UNCHANGED ApiVars

\* lines 53-54, 91-92: if push_buildroot_to: m.commit_buildroot()
ApiCommit ==
    /\ pc = "built"
    /\ api.entry \in InContainer
    /\ truthy(api.push_buildroot_to)
    /\ api' = [api EXCEPT !.calls = Append(@, Call("commit_buildroot", ""))]
    /\ \/ pc' = "committed" /\ exc' = exc
       \/ ApiRaise("RuntimeError")
    /\ UNCHANGED ApiVars

\* lines 55, 93: m.push_buildroot(push_buildroot_to), and the return
ApiPush ==
    /\ pc = "committed"
    /\ api' = [api EXCEPT !.calls = Append(@, Call("push_buildroot", api.push_buildroot_to[1]))]
    /\ \/ pc' = "returned" /\ exc' = exc
       \/ ApiRaise("RuntimeError")
    /\ UNCHANGED ApiVars

\* lines 56, 94, 124: return build_response, nothing committed
ApiReturn ==
    /\ pc = "built"
    /\ ~(api.entry \in InContainer /\ truthy(api.push_buildroot_to))
    /\ pc' = "returned"
    /\ UNCHANGED <<api, exc>>
    /\ UNCHANGED ApiVars

NextApi ==
    \/ ApiBuild
    \/ ApiCommit
    \/ ApiPush
    \/ ApiReturn

SpecApi == InitApi /\ [][NextApi]_vars

\* the positions of the calls of this operation
CallsOf(op) == {p \in 1..Len(api.calls) : api.calls[p].op = op}

\* C20: the privileged-container entry point commits and pushes the builder
\* container only when push_buildroot_to is configured and only after the
\* build has succeeded, in the order build, commit, push; when
\* push_buildroot_to is not given or the build did not succeed, it neither
\* commits nor pushes; the in-process entry point never commits or pushes.
C20_BuildrootAfterSuccess ==
    /\ api.entry = "build_image_in_privileged_container" =>
          /\ \A c \in CallsOf("commit_buildroot") \cup CallsOf("push_buildroot") :
                /\ api.push_buildroot_to /= <<>>
                /\ api.built = "succeeded"
                /\ \E b \in CallsOf("build") : b < c
          /\ \A q \in CallsOf("push_buildroot") :
                \E c \in CallsOf("commit_buildroot") : c < q
          /\ (api.push_buildroot_to = <<>> \/ api.built /= "succeeded") =>
                CallsOf("commit_buildroot") \cup CallsOf("push_buildroot") = {}
    /\ api.entry = "build_image_here" =>
          CallsOf("commit_buildroot") \cup CallsOf("push_buildroot") = {}

\* ---------------------------------------------------------------------------
\* Failures collected over the whole list (lines 153-196)
\* ---------------------------------------------------------------------------

\* entry j is a mapping that names a loaded plugin class and whose args, if
\* given, are a mapping
Runnable(j) ==
    plugins_conf[j].kind = "dict" /\ ~Unresolved(j) /\ ~NonMappingArgs(j)

\* the positions in the log where a plugin resolved to can_fail=false raised
FatalRaises == {p \in Ran : log[p].ev = "raised" /\ ~ClaimedCanFail(log[p].i)}

\* the plugin of entry j has run and its response or failure marker is the
\* result recorded under its key
RanAndRecorded(j) ==
    \E q \in Ran :
        /\ log[q].i = j
        /\ log[q].key \in DOMAIN plugins_results
        /\ \E r \in Ran :
              /\ log[r].key = log[q].key
              /\ plugins_results[log[q].key] =
                    IF log[r].ev = "raised" THEN Marker(r) ELSE log[r].out

\* C21: a fatal plugin failure does not cut the phase short: the loop goes on
\* with the next entry, and once run() has ended every entry configured after
\* the failing plugin that names a loaded plugin has run and has its result
\* recorded; PluginFailedException is raised only after the last configured
\* entry has been processed.
C21_FatalFailureDoesNotCutShort ==
    /\ \A p \in FatalRaises :
          /\ p = Len(log) => idx = log[p].i + 1 /\ (pc = "loop" \/ LoopCompleted)
          /\ pc \in RunEnds =>
                \A j \in (log[p].i + 1)..Len(plugins_conf) :
                    Runnable(j) => RanAndRecorded(j)
    /\ (pc = "raised" /\ exc.type = "PluginFailedException") =>
          /\ idx = Len(plugins_conf) + 1
          /\ \A j \in 1..Len(plugins_conf) : \E p \in 1..Len(log) : log[p].i = j

\* C21 for the runs in which no instantiation raised
C21_WhenInstantiated ==
    (\A p \in 1..Len(log) : log[p].ev /= "instantiate raised") =>
        C21_FatalFailureDoesNotCutShort

\* a fatal plugin raised first, the next entry's plugin ran and was recorded,
\* and only then was PluginFailedException raised
C21_LaterEntryRan ==
    /\ pc = "raised" /\ exc.type = "PluginFailedException"
    /\ \E p \in FatalRaises :
          /\ log[p].i = 1
          /\ Len(plugins_conf) = 2
          /\ RanAndRecorded(2)
          /\ \E q \in Ran : log[q].i = 2 /\ log[q].ev = "returned"

-----------------------------------------------------------------------------
\* run() called again on the same runner, as test_bad_setup does

\* how many times run() is called on one runner
MaxRuns == 2

\* the entries of the runner: SomePlugin fatal by its entry or tolerated by
\* default, RemoveBuildConfigsPlugin fatal by its class or tolerated by its
\* entry
RerunEntries ==
    {Entry("dict", <<SomePlugin.key>>, <<>>, c) : c \in {<<>>, <<FALSE>>}}
    \cup {Entry("dict", <<RemoveBuildConfigsPlugin.key>>, <<PrepareArgs>>, c) :
            c \in {<<>>, <<TRUE>>}}

RerunConfs == {<<a, b, c>> : a, b, c \in RerunEntries}

InitRerun ==
    /\ \E entries \in RerunConfs :
          /\ heap = load_conf(<<>>, entries).heap
          /\ plugins_conf = load_conf(<<>>, entries).conf
          /\ conf0 = entries
    /\ plugin_classes = load_plugins
    /\ runner = "PostBuildPluginsRunner"
    /\ results_ref = results_attr(runner)
    /\ result_maps = NoResults
    /\ results0 = result_maps[results_ref]
    /\ auto = NoAuto
    /\ workflow = Builder
    /\ \E e \in SomeEnvironments :
          os_environ = e[1] /\ build_is_failing = e[2] /\ osbs = e[3]
    /\ osbs_calls = <<>>
    /\ files = <<>>
    /\ api = NoApi
    /\ pc = "constructed"
    /\ idx = 0
    /\ failed_msgs = <<>>
    /\ plugin_can_fail = TRUE
    /\ plugin_instance = <<>>
    /\ translated = 0
    /\ exc = NoException
    /\ log = <<>>

\* the calls of run() that followed the first
Reruns == {p \in 1..Len(log) : log[p].ev = "run"}

\* the failure buffer of the run before is kept
failed_msgs_kept(msgs) == msgs

\* failed_msgs = []
failed_msgs_at_start(msgs) == <<>>

\* the caller sets up the environment (os.environ, OSBS) and calls run() on
\* the runner once more, whether the run before returned or raised
RunAgain ==
    /\ pc \in RunEnds
    /\ Cardinality(Reruns) < MaxRuns - 1
    /\ \E e \in SomeEnvironments :
          os_environ' = e[1] /\ build_is_failing' = e[2] /\ osbs' = e[3]
    /\ pc' = "loop"
    /\ idx' = 1
    /\ failed_msgs' = failed_msgs_at_start(failed_msgs)
    /\ exc' = NoException
    /\ log' = Append(log, Event("run", 0, "", ""))
    /\ UNCHANGED <<heap, plugins_conf, plugin_classes, runner, result_maps, results_ref,
                   auto, workflow, plugin_can_fail, plugin_instance, translated, conf0,
                   results0, osbs_calls, files, api>>

NextRerun ==
    \/ Run
    \/ Instantiate
    \/ RunPlugin
    \/ Finish
    \/ RunAgain

SpecRerun == InitRerun /\ [][NextRerun]_vars

\* the log positions of the run() in progress or just ended
ThisRun == {p \in 1..Len(log) : \A q \in p..Len(log) : log[q].ev /= "run"}

\* the failures of this run of plugins resolved to can_fail=false
FatalInThisRun == {p \in ThisRun \cap Ran : log[p].ev = "raised" /\ ~ClaimedCanFail(log[p].i)}

\* their failure messages in configuration order, from entry i on
RECURSIVE FatalMessagesFrom(_)
FatalMessagesFrom(i) ==
    IF i > Len(plugins_conf) THEN <<>>
    ELSE LET here == {p \in FatalInThisRun : log[p].i = i}
         IN  (IF here = {} THEN <<>> ELSE <<Marker(CHOOSE p \in here : TRUE)>>)
             \o FatalMessagesFrom(i + 1)

\* C22: the message of the PluginFailedException raised by run() is built from
\* exactly the failure messages of the fatal plugins that raised in this run,
\* in configuration order: the single message when there is one, the list of
\* all of them when there are several; no message of a tolerated failure and
\* none of an earlier run of the same runner is part of it.
C22_MessageOfThisRun ==
    (pc = "raised" /\ exc.type = "PluginFailedException") =>
        LET msgs == FatalMessagesFrom(1)
        IN  /\ msgs /= <<>>
            /\ Len(msgs) = 1 => exc.msg = msgs[1]
            /\ Len(msgs) > 1 =>
                  exc.msg = "Multiple plugins raised an exception: " \o str(msgs)

\* the second run on the runner raised with the message of one plugin only,
\* after a tolerated failure in the same run and after an earlier run in which
\* another fatal plugin had raised
C22_Witness ==
    /\ pc = "raised" /\ exc.type = "PluginFailedException"
    /\ Reruns /= {}
    /\ Cardinality(FatalInThisRun) = 1
    /\ \E p \in ThisRun \cap Ran : log[p].ev = "raised" /\ ClaimedCanFail(log[p].i)
    /\ \E p \in Ran \ ThisRun :
          /\ log[p].ev = "raised" /\ ~ClaimedCanFail(log[p].i)
          /\ \A q \in FatalInThisRun : log[q].key /= log[p].key

\* one run on the runner raised with the messages of two fatal plugins
C22_WitnessSeveral ==
    /\ pc = "raised" /\ exc.type = "PluginFailedException"
    /\ Cardinality(FatalInThisRun) = 2
    /\ \E p, q \in FatalInThisRun : log[p].key /= log[q].key

-----------------------------------------------------------------------------
\* A build phase in which a plugin changes the workflow before a later plugin
\* of the same list is instantiated

\* args holding each of the four reserved values
TokenArgs ==
    Dict(<<"image", "base", "path", "recipe">>,
         <<Str("BUILT_IMAGE_ID"), Str("BASE_IMAGE"), Str("BUILD_SOURCE_PATH"),
           Str("BUILD_DOCKERFILE_PATH")>>)

\* the classes of the phase
LivePlugins ==
    [k \in {SomePlugin.key, ChangingPlugin.key} |->
        IF k = SomePlugin.key THEN SomePlugin ELSE ChangingPlugin]

LiveEntries ==
    {Entry("dict", <<ChangingPlugin.key>>, a, <<>>) : a \in {<<>>, <<TokenArgs>>}}
    \cup {Entry("dict", <<SomePlugin.key>>, <<TokenArgs>>, <<>>)}

LiveConfs == {<<a, b>> : a, b \in LiveEntries}

InitLive ==
    /\ \E entries \in LiveConfs :
          /\ heap = load_conf(<<>>, entries).heap
          /\ plugins_conf = load_conf(<<>>, entries).conf
          /\ conf0 = entries
    /\ plugin_classes = LivePlugins
    /\ runner = "PostBuildPluginsRunner"
    /\ results_ref = results_attr(runner)
    /\ result_maps = NoResults
    /\ results0 = result_maps[results_ref]
    /\ auto = NoAuto
    /\ workflow = Builder
    /\ os_environ = NoEnvironment[1]
    /\ build_is_failing = NoEnvironment[2]
    /\ osbs = NoEnvironment[3]
    /\ osbs_calls = <<>>
    /\ files = <<>>
    /\ api = NoApi
    /\ pc = "constructed"
    /\ idx = 0
    /\ failed_msgs = <<>>
    /\ plugin_can_fail = TRUE
    /\ plugin_instance = <<>>
    /\ translated = 0
    /\ exc = NoException
    /\ log = <<>>

NextLive ==
    \/ Run
    \/ Instantiate
    \/ RunPlugin
    \/ Finish

SpecLive == InitLive /\ [][NextLive]_vars

\* C23: the placeholder tokens are resolved against the workflow as it is when
\* each plugin is instantiated, not once per phase: the keywords a plugin has
\* just been instantiated with are its entry's args with every token replaced
\* by the value the workflow has now, whatever the plugins run before it in
\* the same list have made of the built image id, the base image, the source
\* path and the recipe path.
C23_ResolvedAtInstantiation ==
    (pc = "instantiated" /\ conf0[position].args /= <<>>) =>
        Substituted(conf0[position].args[1], value(heap, plugin_instance[1].kwargs))

\* the first plugin of the list has changed the built image id, and the second
\* has been instantiated with the new id
C23_Witness ==
    /\ pc = "instantiated"
    /\ idx = 2
    /\ \E p \in Ran : log[p].i = 1 /\ log[p].key = ChangingPlugin.key
    /\ workflow.image_id = "sha256:def"
    /\ workflow.image_id /= Builder.image_id
    /\ conf0[2].args = <<TokenArgs>>
    /\ value(heap, plugin_instance[1].kwargs) =
          Dict(<<"image", "base", "path", "recipe">>,
               <<Str("sha256:def"), Str("r/foo:1"), Str("/src"), Str("/src/Dockerfile")>>)

\* the first plugin of the list has changed the base image, and the second has
\* been instantiated with the new one
C23_WitnessBaseImage ==
    /\ pc = "instantiated" /\ idx = 2 /\ conf0[2].args = <<TokenArgs>>
    /\ value(heap, plugin_instance[1].kwargs).kids[2].s = "r/bar:1"

-----------------------------------------------------------------------------
\* 'auto' input selection that fails

\* the 'auto' selection of this runner cannot succeed: no loaded input plugin
\* is usable, or two or more are
SelectionFails == auto.autoinput /\ Cardinality(Usable) /= 1

\* C24: when 'auto' input selection fails (no usable input plugin, or two or
\* more), InputPluginsRunner.run() raises before any input plugin is
\* instantiated or run: run() does nothing but raise
\* PluginFailedException, and the result map stays empty and the first
\* configuration entry's name stays 'auto'.
C24_FailedSelectionLeavesNothing ==
    (runner = "InputPluginsRunner" /\ SelectionFails) =>
        /\ pc \in {"constructed", "raised"}
        /\ pc = "raised" => exc.type = "PluginFailedException"
        /\ \A p \in 1..Len(log) : log[p].ev \notin PluginEvents
        /\ plugin_instance = <<>>
        /\ osbs_calls = <<>>
        /\ DOMAIN plugins_results = {}
        /\ plugins_conf[1].name = <<"auto">>
        /\ plugins_conf = load_conf(<<>>, conf0).conf

\* run() has raised because none of the loaded input plugins is usable
C24_Witness ==
    /\ runner = "InputPluginsRunner" /\ SelectionFails
    /\ Usable = {} /\ DOMAIN plugin_classes /= {}
    /\ pc = "raised" /\ exc.msg = none_autousable
    /\ plugins_conf[1].name = <<"auto">>
    /\ Len(plugins_conf) > 1

\* run() has raised because two of the loaded input plugins are usable
C24_WitnessTwo ==
    /\ runner = "InputPluginsRunner" /\ SelectionFails
    /\ Cardinality(Usable) = 2
    /\ pc = "raised" /\ exc.type = "PluginFailedException"
    /\ plugins_conf[1].name = <<"auto">>

====
